---- MODULE Spec2Model ----
(***************************************************************************)
(* A model of AnimScript (src/unnamed/part_000): one animation instance,   *)
(* the child process it drives over pipes, and the driver that calls it.   *)
(*                                                                         *)
(* The instance is a record of the object's fields; every method is an     *)
(* operator from instance records to instance records, so that a method    *)
(* that calls another one (init -> stop, retrigger -> start -> stop ...)   *)
(* is the composition the code performs.  The actions apply one public     *)
(* method, or deliver one readyRead notification, to the current record.   *)
(*                                                                         *)
(* Abstractions, stated once:                                              *)
(*  - a double is an exact rational; `delta` below is a pair <<n, d>> with *)
(*    d > 0.  The only rounding the code performs on it that is modelled   *)
(*    is round() in setDuration.                                           *)
(*  - a text line is the sequence of its space-separated tokens.           *)
(*  - timestamps are milliseconds since the epoch in the driver; the model *)
(*    draws them from BaseTime .. BaseTime + MaxTime with BaseTime not     *)
(*    smaller than any repeatMsec, so `timestamp - repeatMsec` never       *)
(*    wraps around the quint64.                                            *)
(***************************************************************************)
EXTENDS Integers, Sequences, FiniteSets, TLC

VARIABLES
    info,          \* _info: the descriptor snapshot (runtime-relevant flags)
    path,          \* _path
    initialized,
    process,       \* 0 is the null pointer, otherwise the child's id
    stopped,
    firstFrame,
    readFrame,
    readAnyFrame,
    durationMsec,
    repeatMsec,
    lastFrame,
    minX,
    minY,
    map,           \* _map: key name -> KeyPos
    keys,          \* _keys
    paramValues,   \* _paramValues
    colors,        \* _colors: key name -> ARGB
    inputBuffer,
    live,          \* children spawned by the instance and not killed
    pipe,          \* lines the current child has written and readProcess has not read
    proto,         \* where the current child's standard input stands in the protocol
    fault,         \* a write through the null process pointer happened
    wrote,         \* the lines the last operation wrote, in order
    spawns,        \* the children spawned so far, counted up to MaxSpawns
    lastOp,        \* the last operation the driver or the event loop performed
    scripts,       \* AnimScript::scripts: the catalog, guid -> script
    listed,        \* the list the last list() returned, as the guids of its scripts
    entries,       \* the executables of the animation directory: their --ckb-info runs
    sent,          \* the frame() calls that advanced the animation of the current child
    blocks,        \* the frame blocks the current child has written from begin to end
    open           \* the current child has written `begin frame` and no `end frame` yet

vars == <<info, path, initialized, process, stopped, firstFrame, readFrame,
          readAnyFrame, durationMsec, repeatMsec, lastFrame, minX, minY, map,
          keys, paramValues, colors, inputBuffer, live, pipe, proto, fault,
          wrote, spawns, lastOp, scripts, listed, entries, sent, blocks, open>>

\* the fields of one instance, and the history kept of it
animVars == <<info, path, initialized, process, stopped, firstFrame, readFrame,
              readAnyFrame, durationMsec, repeatMsec, lastFrame, minX, minY, map,
              keys, paramValues, colors, inputBuffer, live, pipe, proto, fault,
              wrote, spawns>>
catalogVars == <<scripts, listed, entries>>
throttleVars == <<sent, blocks, open>>

----------------------------------------------------------------------------
\* Bounds of the model

\* timestamps are BaseTime .. BaseTime + MaxTime
BaseTime == 3
MaxTime == 2
\* the clock specification draws its timestamps from a longer range
MaxClockTime == 5
\* children counted by the history variable spawns
MaxSpawns == 2
\* lines of an open frame block, `begin frame` included, before the child closes it
MaxBuffer == 3
\* lines the child has written that readProcess() left unread
MaxPipe == 1
\* executables in the animation directory
MaxFiles == 3
\* lines of a script's answer after the six it must give
MaxInfoLines == 2
\* keys bound to the animation, in the specification of the keymap block
MaxKeys == 3
\* frame() calls and frame blocks counted for one child
MaxFrames == 3

----------------------------------------------------------------------------
\* Program constants

INT_MAX == 2147483647
\* the duration of one tick in absolute-time mode, in milliseconds
AbsoluteMsec == 1000
\* seconds to milliseconds
MsecPerSec == 1000

KP_NONE == "KP_NONE"
KP_NAME == "KP_NAME"
KP_POSITION == "KP_POSITION"

----------------------------------------------------------------------------
\* Values

\* parameter values are seconds, held as a whole number of 1/ParamScale seconds
ParamScale == 10 * MsecPerSec

EmptyMap == [k \in {} |-> 0]

\* QMap::value(key): a default-constructed QVariant, whose toDouble() is 0, when absent
Value(m, key) == IF key \in DOMAIN m THEN m[key] ELSE 0

\* round(x) of <cmath> on the rational n / d, d > 0: halves go away from zero
Round(n, d) ==
    IF n >= 0 THEN (2 * n + d) \div (2 * d) ELSE 0 - ((2 * (0 - n) + d) \div (2 * d))

RECURSIVE GCD(_, _)
GCD(a, b) == IF b = 0 THEN a ELSE GCD(b, a % b)

\* A line written to the child's standard input: the command word, a name, the
\* numbers it carries and a trailing word
Line(c, name, num, w) == [c |-> c, name |-> name, num |-> num, w |-> w]
Word(c) == Line(c, "", <<>>, "")

\* "frame %1" with a double: the text depends on the value alone, so the line
\* carries the fraction in lowest terms
FrameLine(n, d) ==
    LET g == GCD(n, d) IN Line("frame", "", <<n \div g, d \div g>>, "")
FrameOne == Line("frame", "", <<1, 1>>, "")
StartLine == Word("start")
DownUp(pressed) == IF pressed THEN "down" ELSE "up"

----------------------------------------------------------------------------
\* The child's view of its standard input (the runtime contract): a keymap
\* block, a params block, `begin run`, then frame / start / key commands and
\* further params blocks.  Anything else is "bad".
ProtoStep(st, line) ==
    CASE st = "idle" /\ line.c = "begin keymap" -> "keycount"
      [] st = "keycount" /\ line.c = "keycount" -> "keymap"
      [] st = "keymap" /\ line.c = "key" /\ line.w = "" -> "keymap"
      [] st = "keymap" /\ line.c = "end keymap" -> "keymapDone"
      [] st = "keymapDone" /\ line.c = "begin params" -> "params"
      [] st = "params" /\ line.c = "param" -> "params"
      [] st = "params" /\ line.c = "end params" -> "paramsDone"
      [] st = "paramsDone" /\ line.c = "begin run" -> "run"
      [] st = "run" /\ line.c \in {"frame", "start"} -> "run"
      [] st = "run" /\ line.c = "key" /\ line.w \in {"down", "up"} -> "run"
      [] st = "run" /\ line.c = "begin params" -> "liveParams"
      [] st = "liveParams" /\ line.c = "param" -> "liveParams"
      [] st = "liveParams" /\ line.c = "end params" -> "run"
      [] OTHER -> "bad"

\* process->write(line)
write(s, line) ==
    IF s.process = 0
    THEN [s EXCEPT !.fault = TRUE]
    ELSE [s EXCEPT !.wrote = Append(@, line), !.proto = ProtoStep(@, line)]

RECURSIVE writeAll(_, _)
writeAll(s, lines) ==
    IF lines = <<>> THEN s ELSE writeAll(write(s, Head(lines)), Tail(lines))

----------------------------------------------------------------------------
\* AnimScript's methods

\* stop() that drops the handle without process->kill()
stop_noKill(s) ==
    LET s1 == [s EXCEPT !.colors = EmptyMap]
    IN  IF s1.process # 0 THEN [s1 EXCEPT !.process = 0, !.pipe = <<>>] ELSE s1

\* stop() that leaves _colors alone
stop_keepColors(s) ==
    IF s.process # 0
    THEN [s EXCEPT !.live = @ \ {s.process}, !.process = 0, !.pipe = <<>>]
    ELSE s

stop(s) ==
    LET s1 == [s EXCEPT !.colors = EmptyMap]
    IN  IF s1.process # 0
        THEN [s1 EXCEPT !.live = @ \ {s1.process}, !.process = 0, !.pipe = <<>>]
        ELSE s1

\* setDuration() without `if(durationMsec <= 0) durationMsec = -1`
setDuration_keepZero(s) ==
    IF s.info.absoluteTime
    THEN [s EXCEPT !.durationMsec = AbsoluteMsec, !.repeatMsec = 0]
    ELSE LET d == Round(Value(s.paramValues, "duration") * MsecPerSec, ParamScale)
             r == Round(Value(s.paramValues, "repeat") * MsecPerSec, ParamScale)
         IN  [s EXCEPT !.durationMsec = d, !.repeatMsec = r]

setDuration(s) ==
    IF s.info.absoluteTime
    THEN [s EXCEPT !.durationMsec = AbsoluteMsec, !.repeatMsec = 0]
    ELSE LET d == Round(Value(s.paramValues, "duration") * MsecPerSec, ParamScale)
             r == Round(Value(s.paramValues, "repeat") * MsecPerSec, ParamScale)
         IN  [s EXCEPT !.durationMsec = IF d <= 0 THEN -1 ELSE d,
                       !.repeatMsec = r]

\* the names of a QMap in the order its iterator visits them
ParamOrder == <<"duration", "repeat">>

printParams(s) ==
    LET names == SelectSeq(ParamOrder, LAMBDA n : n \in DOMAIN s.paramValues)
        lines == [i \in 1..Len(names) |->
                     Line("param", names[i], <<s.paramValues[names[i]]>>, "")]
    IN  writeAll(s, <<Word("begin params")>> \o lines \o <<Word("end params")>>)

\* init() that does not stop the child first
init_noStop(s, m, ks, pv) ==
    IF s.path = ""
    THEN s
    ELSE LET s2 == setDuration([s EXCEPT !.map = m, !.keys = ks, !.paramValues = pv])
         IN  [s2 EXCEPT !.stopped = FALSE, !.firstFrame = FALSE, !.initialized = TRUE]

init(s, m, ks, pv) ==
    IF s.path = ""
    THEN s
    ELSE LET s1 == stop(s)
             s2 == setDuration([s1 EXCEPT !.map = m, !.keys = ks, !.paramValues = pv])
         IN  [s2 EXCEPT !.stopped = FALSE, !.firstFrame = FALSE, !.initialized = TRUE]

\* parameters() that does not look for the child
parameters_noChildCheck(s, pv) ==
    IF ~s.initialized \/ ~s.info.liveParams
    THEN s
    ELSE printParams(setDuration([s EXCEPT !.paramValues = pv]))

parameters(s, pv) ==
    IF ~s.initialized \/ s.process = 0 \/ ~s.info.liveParams
    THEN s
    ELSE printParams(setDuration([s EXCEPT !.paramValues = pv]))

\* a pid no running child of the instance has
NewPid(s) == CHOOSE n \in 1..(Cardinality(s.live) + 1) : n \notin s.live

Min(S) == CHOOSE m \in S : \A n \in S : m <= n

\* start(): the keys of _keys that have a position in _map, in order
keysCopy(s) == SelectSeq(s.keys, LAMBDA k : k \in DOMAIN s.map)

\* the keymap block that announces every bound key
keymapBlock_countAll(s) ==
    LET kc == keysCopy(s)
        keyLines == [i \in 1..Len(kc) |->
                       Line("key", kc[i],
                            <<s.map[kc[i]].x - s.minX, s.map[kc[i]].y - s.minY>>, "")]
    IN  writeAll(s, <<Word("begin keymap"), Line("keycount", "", <<Len(s.keys)>>, "")>>
                    \o keyLines \o <<Word("end keymap")>>)

\* start(): the keymap block, the parameters and `begin run`
keymapBlock(s) ==
    LET kc == keysCopy(s)
        keyLines == [i \in 1..Len(kc) |->
                       Line("key", kc[i],
                            <<s.map[kc[i]].x - s.minX, s.map[kc[i]].y - s.minY>>, "")]
    IN  writeAll(s, <<Word("begin keymap"), Line("keycount", "", <<Len(kc)>>, "")>>
                    \o keyLines \o <<Word("end keymap")>>)

\* the handshake with `begin run` ahead of the parameters
handshake_runFirst(s) == printParams(write(keymapBlock(s), Word("begin run")))

handshake(s) == write(printParams(keymapBlock(s)), Word("begin run"))

start(s, timestamp) ==
    IF ~s.initialized
    THEN s
    ELSE LET s1 == stop(s)
             pid == NewPid(s1)
             kc == keysCopy(s1)
             xs == {s1.map[kc[i]].x : i \in 1..Len(kc)}
             ys == {s1.map[kc[i]].y : i \in 1..Len(kc)}
             s2 == [s1 EXCEPT !.stopped = FALSE, !.firstFrame = FALSE,
                              !.readFrame = FALSE, !.readAnyFrame = FALSE,
                              !.process = pid, !.live = @ \cup {pid},
                              !.spawns = IF @ < MaxSpawns THEN @ + 1 ELSE @,
                              !.proto = "idle", !.pipe = <<>>,
                              !.minX = IF xs = {} THEN INT_MAX ELSE Min(xs),
                              !.minY = IF ys = {} THEN INT_MAX ELSE Min(ys)]
         IN  [handshake(s2) EXCEPT !.lastFrame = timestamp]

\* nextFrame(): while(delta > 1.){ write("frame 1"); delta--; } on delta = n / d
RECURSIVE skipDurations(_, _, _)
skipDurations(s, n, d) ==
    IF n > d
    THEN LET r == skipDurations(write(s, FrameOne), n - d, d)
         IN  r
    ELSE [s |-> s, n |-> n]

\* nextFrame() without the loop that skips complete durations
nextFrame_noSkip(s, timestamp) ==
    LET last == IF timestamp <= s.lastFrame THEN timestamp ELSE s.lastFrame
        n0 == IF s.durationMsec < 0 THEN 0 - (timestamp - last) ELSE timestamp - last
        d == IF s.durationMsec < 0 THEN 0 - s.durationMsec ELSE s.durationMsec
        n1 == IF n0 < 0 THEN 0 ELSE n0
        s1 == write([s EXCEPT !.lastFrame = timestamp], FrameLine(n1, d))
    IN  [s1 EXCEPT !.firstFrame = TRUE]

\* nextFrame() that keeps lastFrame when the timestamp is not after it
nextFrame_keepClock(s, timestamp) ==
    LET last == IF timestamp <= s.lastFrame THEN timestamp ELSE s.lastFrame
        n0 == IF s.durationMsec < 0 THEN 0 - (timestamp - last) ELSE timestamp - last
        d == IF s.durationMsec < 0 THEN 0 - s.durationMsec ELSE s.durationMsec
        skipped == IF ~s.info.absoluteTime
                   THEN skipDurations(s, n0, d)
                   ELSE [s |-> s, n |-> n0]
        n1 == IF skipped.n < 0 THEN 0 ELSE skipped.n
        s1 == write([skipped.s EXCEPT
                        !.lastFrame = IF timestamp <= @ THEN @ ELSE timestamp],
                    FrameLine(n1, d))
    IN  [s1 EXCEPT !.firstFrame = TRUE]

nextFrame(s, timestamp) ==
    LET last == IF timestamp <= s.lastFrame THEN timestamp ELSE s.lastFrame
        \* (timestamp - lastFrame) / (double)durationMsec, with a positive denominator
        n0 == IF s.durationMsec < 0 THEN 0 - (timestamp - last) ELSE timestamp - last
        d == IF s.durationMsec < 0 THEN 0 - s.durationMsec ELSE s.durationMsec
        skipped == IF ~s.info.absoluteTime
                   THEN skipDurations(s, n0, d)
                   ELSE [s |-> s, n |-> n0]
        n1 == IF skipped.n < 0 THEN 0 ELSE skipped.n
        s1 == write([skipped.s EXCEPT !.lastFrame = timestamp], FrameLine(n1, d))
    IN  [s1 EXCEPT !.firstFrame = TRUE]

\* the value of retrigger's allowPreempt when the caller leaves it out
DefaultAllowPreempt == FALSE

\* retrigger() that does not start a child when there is none
retriggerNow_noSpawn(s, timestamp) ==
    write(nextFrame(s, timestamp), StartLine)

\* retrigger() after its preemption step
retriggerNow(s, timestamp) ==
    LET s1 == IF s.process = 0 THEN start(s, timestamp) ELSE s
    IN  write(nextFrame(s1, timestamp), StartLine)

\* retrigger() whose preemption step forgets to go one repeat back
retrigger_noPast(s, timestamp, allowPreempt) ==
    IF ~s.initialized
    THEN s
    ELSE LET s1 == IF allowPreempt /\ s.info.preempt /\ s.repeatMsec > 0
                   THEN retriggerNow(s, timestamp)
                   ELSE s
         IN  retriggerNow(s1, timestamp)

RECURSIVE retrigger(_, _, _)
retrigger(s, timestamp, allowPreempt) ==
    IF ~s.initialized
    THEN s
    ELSE LET s1 == IF allowPreempt /\ s.info.preempt /\ s.repeatMsec > 0
                   THEN retrigger(s, timestamp - s.repeatMsec, DefaultAllowPreempt)
                   ELSE s
         IN  retriggerNow(s1, timestamp)

\* keypress() that sends the key's position as the keymap has it
keypress_absolutePos(s, key, pressed, timestamp) ==
    IF ~s.initialized
    THEN s
    ELSE LET s1 == IF s.process = 0 THEN start(s, timestamp) ELSE s
         IN  CASE s1.info.kpMode = KP_NONE ->
                    IF pressed THEN retrigger(s1, timestamp, DefaultAllowPreempt) ELSE s1
               [] s1.info.kpMode = KP_NAME ->
                    write(nextFrame(s1, timestamp), Line("key", key, <<>>, DownUp(pressed)))
               [] s1.info.kpMode = KP_POSITION ->
                    IF key \notin DOMAIN s1.map
                    THEN s1
                    ELSE write(nextFrame(s1, timestamp),
                               Line("key", "", <<s1.map[key].x, s1.map[key].y>>,
                                    DownUp(pressed)))

keypress(s, key, pressed, timestamp) ==
    IF ~s.initialized
    THEN s
    ELSE LET s1 == IF s.process = 0 THEN start(s, timestamp) ELSE s
         IN  CASE s1.info.kpMode = KP_NONE ->
                    IF pressed THEN retrigger(s1, timestamp, DefaultAllowPreempt) ELSE s1
               [] s1.info.kpMode = KP_NAME ->
                    write(nextFrame(s1, timestamp), Line("key", key, <<>>, DownUp(pressed)))
               [] s1.info.kpMode = KP_POSITION ->
                    IF key \notin DOMAIN s1.map
                    THEN s1
                    ELSE write(nextFrame(s1, timestamp),
                               Line("key", "",
                                    <<s1.map[key].x - s1.minX, s1.map[key].y - s1.minY>>,
                                    DownUp(pressed)))

\* frame() that goes on after `end run`
frame_ignoreStopped(s, timestamp) ==
    IF ~s.initialized
    THEN s
    ELSE LET s1 == IF s.process = 0 THEN start(s, timestamp) ELSE s
             s2 == IF s1.readFrame \/ ~s1.firstFrame THEN nextFrame(s1, timestamp) ELSE s1
         IN  [s2 EXCEPT !.readFrame = FALSE]

frame(s, timestamp) ==
    IF ~s.initialized \/ s.stopped
    THEN s
    ELSE LET s1 == IF s.process = 0 THEN start(s, timestamp) ELSE s
             s2 == IF s1.readFrame \/ ~s1.firstFrame THEN nextFrame(s1, timestamp) ELSE s1
         IN  [s2 EXCEPT !.readFrame = FALSE]

----------------------------------------------------------------------------
\* The child's standard output

BeginFrame == <<"begin", "frame">>
EndFrame == <<"end", "frame">>
EndRun == <<"end", "run">>

\* the characters of the tokens the model's children write as a colour
Chars(tok) ==
    CASE tok = "ff00ff00" -> <<"f", "f", "0", "0", "f", "f", "0", "0">>
      [] tok = "0000000A" -> <<"0", "0", "0", "0", "0", "0", "0", "A">>
      [] tok = "1ff" -> <<"1", "f", "f">>
      [] tok = "100000000" -> <<"1", "0", "0", "0", "0", "0", "0", "0", "0">>
      [] tok = "zz" -> <<"z", "z">>
      [] OTHER -> <<>>

HexDigit(c) ==
    CASE c = "0" -> 0 [] c = "1" -> 1 [] c = "2" -> 2 [] c = "3" -> 3
      [] c = "4" -> 4 [] c = "5" -> 5 [] c = "6" -> 6 [] c = "7" -> 7
      [] c = "8" -> 8 [] c = "9" -> 9
      [] c \in {"a", "A"} -> 10 [] c \in {"b", "B"} -> 11 [] c \in {"c", "C"} -> 12
      [] c \in {"d", "D"} -> 13 [] c \in {"e", "E"} -> 14 [] c \in {"f", "F"} -> 15
      [] OTHER -> -1

RECURSIVE StripZeros(_)
StripZeros(ds) ==
    IF ds # <<>> /\ Head(ds) = 0 THEN StripZeros(Tail(ds)) ELSE ds

RECURSIVE PadZeros(_, _)
PadZeros(ds, n) == IF Len(ds) >= n THEN ds ELSE PadZeros(<<0>> \o ds, n)

\* the digits of a quint32
UIntDigits == 8
ZeroUInt == <<0, 0, 0, 0>>

\* QString::toUInt(0, 16): the 32-bit value as its four bytes <<a, r, g, b>>;
\* 0 when the text is empty, has a character that is no hex digit, or does
\* not fit 32 bits
toUInt(tok) ==
    LET cs == Chars(tok)
        ds == [i \in 1..Len(cs) |-> HexDigit(cs[i])]
        sig == StripZeros(ds)
    IN  IF cs = <<>> \/ (\E i \in 1..Len(ds) : ds[i] < 0) \/ Len(sig) > UIntDigits
        THEN ZeroUInt
        ELSE LET p == PadZeros(sig, UIntDigits)
             IN  [i \in 1..4 |-> 16 * p[2 * i - 1] + p[2 * i]]

\* an insert that keeps the value a key already has
Put_keepFirst(m, key, value) ==
    [k \in DOMAIN m \cup {key} |-> IF k \in DOMAIN m THEN m[k] ELSE value]

\* _colors[key] = value
Put(m, key, value) ==
    [k \in DOMAIN m \cup {key} |-> IF k = key THEN value ELSE m[k]]

\* readProcess(): the lines of a closed frame block, one by one
RECURSIVE processFrame(_, _)
processFrame(cols, buffer) ==
    IF buffer = <<>>
    THEN cols
    ELSE LET split == Head(buffer)
         IN  IF Len(split) # 3 \/ split[1] # "argb"
             THEN processFrame(cols, Tail(buffer))
             ELSE processFrame(Put(cols, split[2], toUInt(split[3])), Tail(buffer))

\* readProcess() that looks for `end run` before it looks at the buffer
RECURSIVE readProcess_anywhere(_)
readProcess_anywhere(s) ==
    IF s.pipe = <<>>
    THEN s
    ELSE LET line == Head(s.pipe)
             s1 == [s EXCEPT !.pipe = Tail(@)]
         IN  IF line = EndRun
             THEN [s1 EXCEPT !.stopped = TRUE]
             ELSE IF s1.inputBuffer = <<>> /\ line # BeginFrame
                  THEN readProcess_anywhere(s1)
                  ELSE IF line = EndFrame
                       THEN readProcess_anywhere([s1 EXCEPT
                                !.colors = processFrame(@, s1.inputBuffer),
                                !.inputBuffer = <<>>,
                                !.readFrame = TRUE, !.readAnyFrame = TRUE])
                       ELSE readProcess_anywhere([s1 EXCEPT !.inputBuffer = Append(@, line)])

RECURSIVE readProcess(_)
readProcess(s) ==
    IF s.pipe = <<>>
    THEN s
    ELSE LET line == Head(s.pipe)
             s1 == [s EXCEPT !.pipe = Tail(@)]
         IN  IF s1.inputBuffer = <<>> /\ line # BeginFrame
             THEN IF line = EndRun
                  THEN [s1 EXCEPT !.stopped = TRUE]
                  ELSE readProcess(s1)
             ELSE IF line = EndFrame
                  THEN readProcess([s1 EXCEPT
                           !.colors = processFrame(@, s1.inputBuffer),
                           !.inputBuffer = <<>>,
                           !.readFrame = TRUE, !.readAnyFrame = TRUE])
                  ELSE readProcess([s1 EXCEPT !.inputBuffer = Append(@, line)])

----------------------------------------------------------------------------
\* Text.  A QString is the sequence of its characters; a token of a line the
\* model reads is a TLA+ string, spelled out on demand.

Spell(tok) ==
    CASE tok = "x" -> <<"x">>
      [] tok = "y" -> <<"y">>
      [] tok = "%20" -> <<"%", "2", "0">>
      [] tok = "{0a}" -> <<"{", "0", "a", "}">>
      [] tok = "{0A}" -> <<"{", "0", "A", "}">>
      [] tok = "{0b}" -> <<"{", "0", "b", "}">>
      [] tok = "0c" -> <<"0", "c">>
      [] tok = "{00}" -> <<"{", "0", "0", "}">>
      [] tok = "1" -> <<"1">>
      [] tok = "5" -> <<"5">>
      [] tok = "0.05" -> <<"0", ".", "0", "5">>
      [] tok = "90000" -> <<"9", "0", "0", "0", "0">>
      [] tok = "s" -> <<"s">>
      [] tok = "S" -> <<"S">>
      [] tok = "bool" -> <<"b", "o", "o", "l">>
      [] tok = "long" -> <<"l", "o", "n", "g">>
      [] tok = "Double" -> <<"D", "o", "u", "b", "l", "e">>
      [] tok = "double" -> <<"d", "o", "u", "b", "l", "e">>
      [] tok = "rgb" -> <<"r", "g", "b">>
      [] tok = "argb" -> <<"a", "r", "g", "b">>
      [] tok = "gradient" -> <<"g", "r", "a", "d", "i", "e", "n", "t">>
      [] tok = "agradient" -> <<"a", "g", "r", "a", "d", "i", "e", "n", "t">>
      [] tok = "angle" -> <<"a", "n", "g", "l", "e">>
      [] tok = "string" -> <<"s", "t", "r", "i", "n", "g">>
      [] tok = "label" -> <<"l", "a", "b", "e", "l">>
      [] tok = "colour" -> <<"c", "o", "l", "o", "u", "r">>
      [] tok = "trigger" -> <<"t", "r", "i", "g", "g", "e", "r">>
      [] tok = "Trigger" -> <<"T", "r", "i", "g", "g", "e", "r">>
      [] tok = "kptrigger" -> <<"k", "p", "t", "r", "i", "g", "g", "e", "r">>
      [] tok = "duration" -> <<"d", "u", "r", "a", "t", "i", "o", "n">>
      [] tok = "Duration" -> <<"D", "u", "r", "a", "t", "i", "o", "n">>
      [] tok = "delay" -> <<"d", "e", "l", "a", "y">>
      [] tok = "kpdelay" -> <<"k", "p", "d", "e", "l", "a", "y">>
      [] tok = "repeat" -> <<"r", "e", "p", "e", "a", "t">>
      [] tok = "Repeat" -> <<"R", "e", "p", "e", "a", "t">>
      [] tok = "kprepeat" -> <<"k", "p", "r", "e", "p", "e", "a", "t">>
      [] tok = "stop" -> <<"s", "t", "o", "p">>
      [] tok = "kpstop" -> <<"k", "p", "s", "t", "o", "p">>
      [] tok = "kprelease" -> <<"k", "p", "r", "e", "l", "e", "a", "s", "e">>
      [] OTHER -> <<>>

UpperCase == <<"A", "B", "C", "D", "E", "F", "G", "H", "I", "J", "K", "L", "M",
               "N", "O", "P", "Q", "R", "S", "T", "U", "V", "W", "X", "Y", "Z">>
LowerCase == <<"a", "b", "c", "d", "e", "f", "g", "h", "i", "j", "k", "l", "m",
               "n", "o", "p", "q", "r", "s", "t", "u", "v", "w", "x", "y", "z">>
Digits == <<"0", "1", "2", "3", "4", "5", "6", "7", "8", "9">>

IndexOf(c, alphabet) ==
    IF \E i \in 1..Len(alphabet) : alphabet[i] = c
    THEN CHOOSE i \in 1..Len(alphabet) : alphabet[i] = c
    ELSE 0

\* the code of a character (Latin-1)
Ord(c) ==
    IF IndexOf(c, Digits) > 0 THEN 47 + IndexOf(c, Digits)
    ELSE IF IndexOf(c, UpperCase) > 0 THEN 64 + IndexOf(c, UpperCase)
    ELSE IF IndexOf(c, LowerCase) > 0 THEN 96 + IndexOf(c, LowerCase)
    ELSE CASE c = " " -> 32 [] c = "%" -> 37 [] c = "." -> 46
           [] c = "{" -> 123 [] c = "}" -> 125 [] OTHER -> 63

\* the character of a code
CharOf(n) ==
    IF n \in 48..57 THEN Digits[n - 47]
    ELSE IF n \in 65..90 THEN UpperCase[n - 64]
    ELSE IF n \in 97..122 THEN LowerCase[n - 96]
    ELSE CASE n = 32 -> " " [] n = 37 -> "%" [] n = 46 -> "."
           [] n = 123 -> "{" [] n = 125 -> "}" [] OTHER -> "?"

\* QString::toLower() and QString::toUpper()
toLower(cs) ==
    [i \in 1..Len(cs) |->
        IF IndexOf(cs[i], UpperCase) > 0 THEN LowerCase[IndexOf(cs[i], UpperCase)] ELSE cs[i]]
toUpper(cs) ==
    [i \in 1..Len(cs) |->
        IF IndexOf(cs[i], LowerCase) > 0 THEN UpperCase[IndexOf(cs[i], LowerCase)] ELSE cs[i]]

\* QString::trimmed()
RECURSIVE trimLeft(_)
trimLeft(cs) == IF cs # <<>> /\ Head(cs) = " " THEN trimLeft(Tail(cs)) ELSE cs
RECURSIVE trimRight(_)
trimRight(cs) ==
    IF cs # <<>> /\ cs[Len(cs)] = " " THEN trimRight(SubSeq(cs, 1, Len(cs) - 1)) ELSE cs
trimmed(cs) == trimRight(trimLeft(cs))

\* QUrl::fromPercentEncoding(): %XX with two hex digits is the character of
\* code XX, anything else stays
RECURSIVE fromPercentEncoding(_)
fromPercentEncoding(cs) ==
    IF cs = <<>>
    THEN <<>>
    ELSE IF Head(cs) = "%" /\ Len(cs) >= 3 /\ HexDigit(cs[2]) >= 0 /\ HexDigit(cs[3]) >= 0
         THEN <<CharOf(16 * HexDigit(cs[2]) + HexDigit(cs[3]))>>
              \o fromPercentEncoding(SubSeq(cs, 4, Len(cs)))
         ELSE <<Head(cs)>> \o fromPercentEncoding(Tail(cs))

urlParam(tok) == trimmed(fromPercentEncoding(trimmed(Spell(tok))))

\* operator< of QString: by the codes of the characters, a prefix first
RECURSIVE LessThan(_, _)
LessThan(a, b) ==
    IF b = <<>> THEN FALSE
    ELSE IF a = <<>> THEN TRUE
    ELSE IF Ord(Head(a)) # Ord(Head(b)) THEN Ord(Head(a)) < Ord(Head(b))
    ELSE LessThan(Tail(a), Tail(b))

\* QUuid(text): the hex digits between the braces, which may be left out; the
\* null QUuid when a character is not a hex digit
NullUuid == <<>>
QUuid(cs) ==
    LET inner == IF cs # <<>> /\ Head(cs) = "{" THEN Tail(cs) ELSE cs
        body == IF inner # <<>> /\ inner[Len(inner)] = "}"
                THEN SubSeq(inner, 1, Len(inner) - 1) ELSE inner
        ds == [i \in 1..Len(body) |-> HexDigit(body[i])]
    IN  IF body = <<>> \/ (\E i \in 1..Len(ds) : ds[i] < 0) \/ (\A i \in 1..Len(ds) : ds[i] = 0)
        THEN NullUuid
        ELSE ds
isNull(uuid) == uuid = NullUuid

\* QUuid::toString(): the digits in lower case, in braces
toString(uuid) ==
    <<"{">> \o [i \in 1..Len(uuid) |->
                  IF uuid[i] < 10 THEN Digits[uuid[i] + 1] ELSE LowerCase[uuid[i] - 9]]
    \o <<"}">>

\* QVariant::toDouble() of a text: digits with at most one point, as the
\* fraction <<n, d>>; 0 when the text is no number
RECURSIVE toDoubleFrom(_, _, _, _)
toDoubleFrom(cs, n, d, seenPoint) ==
    IF cs = <<>> THEN <<n, d>>
    ELSE IF Head(cs) = "." /\ ~seenPoint THEN toDoubleFrom(Tail(cs), n, d, TRUE)
    ELSE IF IndexOf(Head(cs), Digits) = 0 THEN <<0, 1>>
    ELSE toDoubleFrom(Tail(cs), 10 * n + IndexOf(Head(cs), Digits) - 1,
                      IF seenPoint THEN 10 * d ELSE d, seenPoint)
toDouble(cs) == IF cs = <<>> \/ cs = <<".">> THEN <<0, 1>> ELSE toDoubleFrom(cs, 0, 1, FALSE)

----------------------------------------------------------------------------
\* The catalog: load(), scan() and list()

\* const static double ONE_DAY = 24. * 60. * 60.
ONE_DAY == 86400

\* a QVariant: a text, or a number n / d of some kind
Text(cs) == [kind |-> "string", text |-> cs, num |-> <<0, 1>>]
Number(kind, n, d) == [kind |-> kind, text |-> <<>>, num |-> <<n, d>>]
Bool(b) == Number("bool", IF b THEN 1 ELSE 0, 1)

Param(type, name, prefix, postfix, def, minimum, maximum) ==
    [type |-> type, name |-> name, prefix |-> prefix, postfix |-> postfix,
     def |-> def, minimum |-> minimum, maximum |-> maximum]

\* hasParam(name): a parameter of that name is in the list
hasParam(i, name) == \E k \in 1..Len(i.params) : i.params[k].name = name

\* _info of a script that load() has not filled
NoInfo ==
    [guid |-> NullUuid, name |-> <<>>, version |-> <<>>, year |-> <<>>, author |-> <<>>,
     license |-> <<>>, description |-> <<>>, kpMode |-> KP_NONE, absoluteTime |-> FALSE,
     repeat |-> TRUE, preempt |-> FALSE, liveParams |-> FALSE, params |-> <<>>]

\* Param::Type of a type word, "INVALID" if it names none
paramType(sType) ==
    CASE sType = Spell("long") -> "LONG"
      [] sType = Spell("double") -> "DOUBLE"
      [] sType = Spell("bool") -> "BOOL"
      [] sType = Spell("rgb") -> "RGB"
      [] sType = Spell("argb") -> "ARGB"
      [] sType = Spell("gradient") -> "GRADIENT"
      [] sType = Spell("agradient") -> "AGRADIENT"
      [] sType = Spell("angle") -> "ANGLE"
      [] sType = Spell("string") -> "STRING"
      [] sType = Spell("label") -> "LABEL"
      [] OTHER -> "INVALID"

\* the names a script may not declare
TimingNames ==
    {Spell("delay"), Spell("kpdelay"), Spell("repeat"), Spell("kprepeat"),
     Spell("stop"), Spell("kpstop"), Spell("kprelease")}

\* components[k], "" past the end
Component(components, k) == IF k <= Len(components) THEN components[k] ELSE ""

\* loadParam() that takes a duration in absolute-time mode too
loadParam_absoluteDuration(st, components) ==
    LET type == paramType(toLower(Spell(Component(components, 2))))
        name == toLower(Spell(Component(components, 3)))
        def == urlParam(Component(components, 6))
        value == toDouble(def)
        add(mn, mx) ==
            [st EXCEPT !.info.params =
                Append(@, Param(type, name, urlParam(Component(components, 4)),
                                urlParam(Component(components, 5)), Text(def), mn, mx))]
    IN  IF Len(components) < 3 \/ type = "INVALID" \/ hasParam(st.info, name)
        THEN st
        ELSE IF name \in {Spell("trigger"), Spell("kptrigger")} /\ type # "BOOL"
        THEN st
        ELSE IF name = Spell("duration")
        THEN IF type # "DOUBLE" \/ 10 * value[1] < value[2] \/ value[1] > ONE_DAY * value[2]
             THEN st
             ELSE [add(Number("double", 1, 10), Number("double", ONE_DAY, 1))
                      EXCEPT !.defaultDuration = value]
        ELSE IF name \in TimingNames
        THEN st
        ELSE add(Text(urlParam(Component(components, 7))),
                 Text(urlParam(Component(components, 8))))

\* load(): a `param` line; st is _info with the local defaultDuration
loadParam(st, components) ==
    LET type == paramType(toLower(Spell(Component(components, 2))))
        name == toLower(Spell(Component(components, 3)))
        prefix == urlParam(Component(components, 4))
        postfix == urlParam(Component(components, 5))
        def == urlParam(Component(components, 6))
        minimum == urlParam(Component(components, 7))
        maximum == urlParam(Component(components, 8))
        value == toDouble(def)
        add(mn, mx) ==
            [st EXCEPT !.info.params =
                Append(@, Param(type, name, prefix, postfix, Text(def), mn, mx))]
    IN  IF Len(components) < 3 \/ type = "INVALID" \/ hasParam(st.info, name)
        THEN st
        ELSE IF name \in {Spell("trigger"), Spell("kptrigger")} /\ type # "BOOL"
        THEN st
        ELSE IF name = Spell("duration")
        THEN IF \/ st.info.absoluteTime
                \/ type # "DOUBLE"
                \/ 10 * value[1] < value[2]
                \/ value[1] > ONE_DAY * value[2]
             THEN st
             ELSE [add(Number("double", 1, 10), Number("double", ONE_DAY, 1))
                      EXCEPT !.defaultDuration = value]
        ELSE IF name \in TimingNames
        THEN st
        ELSE add(Text(minimum), Text(maximum))

\* load(): one line of the script's answer to --ckb-info
loadLine(st, components) ==
    LET param == Component(components, 1)
        arg == Component(components, 2)
    IN  IF Len(components) < 2 THEN st
        ELSE CASE param = "guid" -> [st EXCEPT !.info.guid = QUuid(urlParam(arg))]
               [] param = "name" -> [st EXCEPT !.info.name = urlParam(arg)]
               [] param = "version" -> [st EXCEPT !.info.version = urlParam(arg)]
               [] param = "year" -> [st EXCEPT !.info.year = urlParam(arg)]
               [] param = "author" -> [st EXCEPT !.info.author = urlParam(arg)]
               [] param = "license" -> [st EXCEPT !.info.license = urlParam(arg)]
               [] param = "description" -> [st EXCEPT !.info.description = urlParam(arg)]
               [] param = "kpmode" ->
                    [st EXCEPT !.info.kpMode =
                        IF arg = "position" THEN KP_POSITION
                        ELSE IF arg = "name" THEN KP_NAME ELSE KP_NONE]
               [] param = "time" ->
                    IF st.defaultDuration[1] > 0
                    THEN st
                    ELSE [st EXCEPT !.info.absoluteTime = (arg = "absolute")]
               [] param = "repeat" -> [st EXCEPT !.info.repeat = (arg = "on")]
               [] param = "preempt" -> [st EXCEPT !.info.preempt = (arg = "on")]
               [] param = "parammode" -> [st EXCEPT !.info.liveParams = (arg = "live")]
               [] param = "param" -> loadParam(st, components)
               [] OTHER -> st

RECURSIVE loadLines(_, _)
loadLines(st, lines) ==
    IF lines = <<>> THEN st ELSE loadLines(loadLine(st, Head(lines)), Tail(lines))

\* load(): the timing parameters added after the script's own
timingParams(st) ==
    LET i == st.info
        dd == IF st.defaultDuration[1] < 0 THEN <<1, 1>> ELSE st.defaultDuration
        day == Number("double", ONE_DAY, 1)
        tenth == Number("double", 1, 10)
        zero == Number("double", 0, 1)
        none == Number("long", 0, 1)
        P(type, tok, def, mn, mx) == Param(type, Spell(tok), <<>>, <<>>, def, mn, mx)
        triggers ==
            (IF hasParam(i, Spell("trigger")) THEN <<>>
             ELSE <<P("BOOL", "trigger", Bool(TRUE), none, none)>>)
            \o (IF hasParam(i, Spell("kptrigger")) THEN <<>>
                ELSE <<P("BOOL", "kptrigger", Bool(FALSE), none, none)>>)
        delays ==
            <<P("DOUBLE", "delay", zero, zero, day),
              P("DOUBLE", "kpdelay", zero, zero, day),
              P("BOOL", "kprelease", Bool(FALSE), none, Number("long", 3, 1))>>
        duration ==
            IF st.defaultDuration[1] < 0 /\ ~i.absoluteTime
            THEN <<P("DOUBLE", "duration", Number("double", dd[1], dd[2]), tenth, day)>>
            ELSE <<>>
        repeats ==
            IF i.repeat
            THEN <<P("DOUBLE", "repeat", Number("double", dd[1], dd[2]), tenth, day),
                   P("DOUBLE", "kprepeat", Number("double", dd[1], dd[2]), tenth, day),
                   P("LONG", "stop", Number("long", -1, 1), none, Number("long", 1000, 1)),
                   P("LONG", "kpstop", none, none, Number("long", 1000, 1))>>
            ELSE <<P("DOUBLE", "stop", Number("double", -1, 1), tenth, day),
                   P("DOUBLE", "kpstop", Number("double", -1, 1), tenth, day)>>
    IN  [i EXCEPT !.params = @ \o triggers \o delays \o duration \o repeats,
                  !.preempt = IF i.absoluteTime \/ ~i.repeat THEN FALSE ELSE @]

\* load() of a script whose --ckb-info run is `candidate`: still running
\* after a second, or finished with these lines
load(script, candidate) ==
    IF candidate.running
    THEN [ok |-> FALSE, script |-> script]
    ELSE LET st == loadLines([info |-> script.info, defaultDuration |-> <<-1, 1>>],
                             candidate.out)
             i == st.info
         IN  IF \/ isNull(i.guid) \/ i.name = <<>> \/ i.version = <<>>
                \/ i.year = <<>> \/ i.author = <<>> \/ i.license = <<>>
             THEN [ok |-> FALSE, script |-> [script EXCEPT !.info = i]]
             ELSE [ok |-> TRUE, script |-> [script EXCEPT !.info = timingParams(st)]]

\* scan() that lets a later script take the place of one with the same guid
RECURSIVE scanFiles_lastWins(_, _, _)
scanFiles_lastWins(hash, dir, n) ==
    IF n > Len(dir)
    THEN hash
    ELSE LET l == load([path |-> n, info |-> NoInfo], dir[n])
             guid == l.script.info.guid
         IN  IF l.ok
             THEN scanFiles_lastWins([g \in DOMAIN hash \cup {guid} |->
                                         IF g = guid THEN l.script ELSE hash[g]], dir, n + 1)
             ELSE scanFiles_lastWins(hash, dir, n + 1)

\* scan(): the executables of the directory, in the order of entryList()
RECURSIVE scanFiles(_, _, _)
scanFiles(hash, dir, n) ==
    IF n > Len(dir)
    THEN hash
    ELSE LET l == load([path |-> n, info |-> NoInfo], dir[n])
             guid == l.script.info.guid
         IN  IF l.ok /\ guid \notin DOMAIN hash
             THEN scanFiles([g \in DOMAIN hash \cup {guid} |->
                                IF g = guid THEN l.script ELSE hash[g]], dir, n + 1)
             ELSE scanFiles(hash, dir, n + 1)

NoScripts == [g \in {} |-> 0]

scan(dir) == scanFiles(NoScripts, dir, 1)

\* list(): " " + guid().toString().toUpper()
guidSuffix(guid) == <<" ">> \o toUpper(toString(guid))

\* list(): one script of scripts.values(); result is the QMap from name to script
listStep(st, guid) ==
    LET name == st.scripts[guid].info.name
        renamed ==
            IF name \in DOMAIN st.result
            THEN LET last == st.result[name]
                     s1 == [st.scripts EXCEPT ![last].info.name = @ \o guidSuffix(last)]
                 IN  [s1 EXCEPT ![guid].info.name = @ \o guidSuffix(guid)]
            ELSE st.scripts
        key == renamed[guid].info.name
    IN  [scripts |-> renamed,
         result |-> [k \in DOMAIN st.result \cup {key} |->
                        IF k = key THEN guid ELSE st.result[k]]]

RECURSIVE listSteps(_, _)
listSteps(st, order) ==
    IF order = <<>> THEN st ELSE listSteps(listStep(st, Head(order)), Tail(order))

\* QMap::values(): the values in ascending order of their keys
RECURSIVE values(_)
values(result) ==
    IF DOMAIN result = {}
    THEN <<>>
    ELSE LET first == CHOOSE k \in DOMAIN result :
                          \A j \in DOMAIN result \ {k} : LessThan(k, j)
         IN  <<result[first]>> \o values([k \in DOMAIN result \ {first} |-> result[k]])

\* list(), with scripts.values() in the order `order`: the catalog with the
\* names it leaves, and the list it returns
list(hash, order) ==
    LET st == listSteps([scripts |-> hash, result |-> [k \in {} |-> 0]], order)
    IN  [scripts |-> st.scripts, list |-> values(st.result)]

\* the orders a QHash may give its values in
Orders(hash) ==
    {o \in [1..Cardinality(DOMAIN hash) -> DOMAIN hash] :
        \A i, j \in 1..Cardinality(DOMAIN hash) : i # j => o[i] # o[j]}

----------------------------------------------------------------------------
\* The inputs the driver and the child are drawn from

KpModes == {KP_NONE, KP_NAME, KP_POSITION}

\* the descriptors load() can leave in _info: it clears preempt in absolute-time mode
Descriptors ==
    {i \in [kpMode : KpModes, absoluteTime : BOOLEAN, preempt : BOOLEAN,
            liveParams : BOOLEAN] : i.absoluteTime => ~i.preempt}

Paths == {"", "ckb-animations/wave"}

KeyMap == [A |-> [x |-> 1, y |-> 2], B |-> [x |-> 3, y |-> 1]]
\* A is bound and has a position, C is bound and has none, B has a position
\* and is not bound
KeyLists == {<<"A", "C">>}
PressedKeys == {"A", "B", "C"}

\* duration 2 ms and repeat 1 ms; duration 0.4 ms (rounds to 0) and no repeat
ParamSets == {[duration |-> 20, repeat |-> 10], [duration |-> 4]}

\* and duration 3 ms with repeat 2 ms
ClockParamSets == ParamSets \cup {[duration |-> 30, repeat |-> 20]}

Timestamps == BaseTime..(BaseTime + MaxTime)
ClockTimestamps == BaseTime..(BaseTime + MaxClockTime)

\* what a child that follows the runtime contract writes: whole frames, and
\* `end run` when it is done
ArgbA == <<"argb", "A", "ff00ff00">>
ContractBursts == {<<BeginFrame, ArgbA, EndFrame>>, <<EndRun>>}

\* the lines of any child, one readyRead at a time
ChildLines ==
    {BeginFrame, EndFrame, EndRun, ArgbA, <<"argb", "A", "1ff">>,
     <<"argb", "B", "0000000A">>, <<"argb">>, <<"rgb", "A", "ff00ff00">>}

\* The --ckb-info run of a script that answers with a guid and a name
Answer(guid, name, more) ==
    [running |-> FALSE,
     out |-> <<<<"guid", guid>>, <<"name", name>>, <<"version", "1">>, <<"year", "5">>,
               <<"author", "s">>>> \o more]
License == <<"license", "x">>

\* scripts that scan() accepts: {0a} and {0A} spell the same guid
Accepted ==
    {Answer("{0a}", "x", <<License>>), Answer("{0A}", "y", <<License>>),
     Answer("{0b}", "x", <<License>>), Answer("0c", "x", <<License>>)}

\* and scripts it does not: one that hangs, one whose license line has no
\* value, one whose name is a blank, one with guid 0
Rejected ==
    {[running |-> TRUE, out |-> <<>>],
     Answer("{0b}", "y", <<<<"license">>>>),
     Answer("{0b}", "%20", <<License>>),
     Answer("{00}", "y", <<License>>)}

RECURSIVE SeqsUpTo(_, _)
SeqsUpTo(S, n) ==
    IF n = 0
    THEN {<<>>}
    ELSE LET shorter == SeqsUpTo(S, n - 1)
         IN  shorter \cup {Append(q, x) : q \in {r \in shorter : Len(r) = n - 1}, x \in S}

Directories == SeqsUpTo(Accepted \cup Rejected, MaxFiles)

\* the lines a script may add to its answer
InfoLines ==
    {<<"time", "absolute">>, <<"time", "relative">>, <<"repeat", "off">>,
     <<"preempt", "on">>, <<"parammode", "live">>, <<"kpmode", "name">>,
     <<"param", "Double", "Duration", "", "", "5">>,
     <<"param", "double", "duration", "", "", "0.05">>,
     <<"param", "bool", "Trigger">>, <<"param", "long", "kptrigger">>,
     <<"param", "rgb", "colour">>, <<"param", "long", "Repeat">>,
     <<"param", "colour", "s">>, <<"param", "string", "S">>, <<"param", "long", "s">>}

Described == {<<Answer("{0a}", "x", <<License>> \o more)>> : more \in SeqsUpTo(InfoLines, MaxInfoLines)}

\* keymaps and bindings for the keymap block: no key is in the corner of A
\* and B; bindings with a key the keymap lacks, with none it has, with a key
\* twice
KeyMaps == {KeyMap, [A |-> [x |-> 2, y |-> 0], B |-> [x |-> 0, y |-> 2]]}
Bindings == SeqsUpTo({"A", "B", "C"}, MaxKeys)

\* one line per readyRead, or `end run` with more lines behind it
LineBursts == {<<l>> : l \in ChildLines} \cup {<<EndRun, BeginFrame>>, <<EndRun, EndRun>>}

----------------------------------------------------------------------------
\* The instance as one record, and back

St ==
    [info |-> info, path |-> path, initialized |-> initialized, process |-> process,
     stopped |-> stopped, firstFrame |-> firstFrame, readFrame |-> readFrame,
     readAnyFrame |-> readAnyFrame, durationMsec |-> durationMsec,
     repeatMsec |-> repeatMsec, lastFrame |-> lastFrame, minX |-> minX, minY |-> minY,
     map |-> map, keys |-> keys, paramValues |-> paramValues, colors |-> colors,
     inputBuffer |-> inputBuffer, live |-> live, pipe |-> pipe, proto |-> proto,
     fault |-> fault, wrote |-> wrote, spawns |-> spawns]

\* the record an operation starts from: nothing written by it yet
Before == [St EXCEPT !.wrote = <<>>]

Fields(r, op) ==
    /\ info' = r.info
    /\ path' = r.path
    /\ initialized' = r.initialized
    /\ process' = r.process
    /\ stopped' = r.stopped
    /\ firstFrame' = r.firstFrame
    /\ readFrame' = r.readFrame
    /\ readAnyFrame' = r.readAnyFrame
    /\ durationMsec' = r.durationMsec
    /\ repeatMsec' = r.repeatMsec
    /\ lastFrame' = r.lastFrame
    /\ minX' = r.minX
    /\ minY' = r.minY
    /\ map' = r.map
    /\ keys' = r.keys
    /\ paramValues' = r.paramValues
    /\ colors' = r.colors
    /\ inputBuffer' = r.inputBuffer
    /\ live' = r.live
    /\ pipe' = r.pipe
    /\ proto' = r.proto
    /\ fault' = r.fault
    /\ wrote' = r.wrote
    /\ spawns' = r.spawns
    /\ lastOp' = op

Becomes(r, op) ==
    /\ Fields(r, op)
    /\ UNCHANGED <<catalogVars, throttleVars>>

----------------------------------------------------------------------------
\* The state after construction.  The constructors set _path, _info,
\* initialized and process; the flags they leave out hold any value, and the
\* numbers they leave out are never read before init() and start() set them.
Init ==
    /\ info \in Descriptors
    /\ path \in Paths
    /\ initialized = FALSE
    /\ process = 0
    /\ stopped \in BOOLEAN
    /\ firstFrame \in BOOLEAN
    /\ readFrame \in BOOLEAN
    /\ readAnyFrame \in BOOLEAN
    /\ durationMsec = 0
    /\ repeatMsec = 0
    /\ lastFrame = 0
    /\ minX = 0
    /\ minY = 0
    /\ map = EmptyMap
    /\ keys = <<>>
    /\ paramValues = EmptyMap
    /\ colors = EmptyMap
    /\ inputBuffer = <<>>
    /\ live = {}
    /\ pipe = <<>>
    /\ proto = "idle"
    /\ fault = FALSE
    /\ wrote = <<>>
    /\ spawns = 0
    /\ lastOp = "new"
    /\ scripts = NoScripts
    /\ listed = <<>>
    /\ entries = <<>>
    /\ sent = 0
    /\ blocks = 0
    /\ open = FALSE

\* The driver's calls
CallInit(KL, PS) ==
    \E ks \in KL, pv \in PS :
        Becomes(init(Before, KeyMap, ks, pv), "init")

CallParameters ==
    \E pv \in ParamSets : Becomes(parameters(Before, pv), "parameters")

CallFrame(T) ==
    \E t \in T : Becomes(frame(Before, t), "frame")

CallRetrigger(T) ==
    \E t \in T, allowPreempt \in BOOLEAN :
        Becomes(retrigger(Before, t, allowPreempt), "retrigger")

CallKeypress(T) ==
    \E key \in PressedKeys, pressed \in BOOLEAN, t \in T :
        Becomes(keypress(Before, key, pressed, t), "keypress")

CallStop ==
    Becomes(stop(Before), "stop")

\* The child writes a burst of lines and the event loop delivers readyRead
\* to readProcess(), which stop() disconnected if the child is gone
ReadyRead(B) ==
    /\ process # 0
    /\ \E burst \in B :
          LET r == readProcess([Before EXCEPT !.pipe = @ \o burst])
          IN  /\ Len(r.inputBuffer) <= MaxBuffer
              /\ Len(r.pipe) <= MaxPipe
              /\ Becomes(r, "readProcess")

\* The child exits or crashes on its own.  Nothing is connected to the
\* finished() signal of a child the instance holds (stop() connects it, to
\* deleteLater(), for the child it drops), so no field of the instance changes
ChildExits ==
    /\ process # 0
    /\ process \in live
    /\ Becomes([Before EXCEPT !.live = @ \ {process}], "exit")

Next ==
    \/ CallInit(KeyLists, ParamSets)
    \/ CallParameters
    \/ CallFrame(Timestamps)
    \/ CallRetrigger(Timestamps)
    \/ CallKeypress(Timestamps)
    \/ CallStop
    \/ ReadyRead(ContractBursts)

Spec == Init /\ [][Next]_vars

\* The parser under any child: one descriptor (readProcess() reads none of its
\* flags) and one binding, and every line a child can write
ParseDescriptor ==
    [kpMode |-> KP_NONE, absoluteTime |-> FALSE, preempt |-> FALSE, liveParams |-> FALSE]

InitParse ==
    /\ Init
    /\ info = ParseDescriptor
    /\ path # ""

NextParse ==
    \/ CallInit(KeyLists, {[duration |-> 20, repeat |-> 10]})
    \/ CallFrame({BaseTime})
    \/ CallStop
    \/ ReadyRead(LineBursts)

SpecParse == InitParse /\ [][NextParse]_vars

\* The frame clock over a longer range of timestamps
InitClock ==
    /\ Init
    /\ info.kpMode = KP_NAME
    /\ ~info.liveParams
    /\ path # ""

NextClock ==
    \/ CallInit(KeyLists, ClockParamSets)
    \/ CallFrame(ClockTimestamps)
    \/ CallRetrigger(ClockTimestamps)
    \/ CallKeypress(ClockTimestamps)
    \/ CallStop
    \/ ReadyRead(ContractBursts)

SpecClock == InitClock /\ [][NextClock]_vars

\* The catalog.  scan() reads the directory again, list() names and orders
\* the catalog, and between the two the directory may lose its first file
Scan ==
    /\ scripts' = scan(entries)
    /\ listed' = <<>>
    /\ lastOp' = "scan"
    /\ UNCHANGED <<entries, animVars, throttleVars>>

List ==
    /\ \E order \in Orders(scripts) :
          LET r == list(scripts, order)
          IN  scripts' = r.scripts /\ listed' = r.list
    /\ lastOp' = "list"
    /\ UNCHANGED <<entries, animVars, throttleVars>>

Unlink ==
    /\ entries # <<>>
    /\ entries' = Tail(entries)
    /\ lastOp' = "unlink"
    /\ UNCHANGED <<scripts, listed, animVars, throttleVars>>

NextCatalog == Scan \/ List \/ Unlink

\* no instance is made: the fields of Init
NoInstance ==
    /\ info = ParseDescriptor
    /\ path = ""
    /\ initialized = FALSE /\ process = 0 /\ stopped = FALSE /\ firstFrame = FALSE
    /\ readFrame = FALSE /\ readAnyFrame = FALSE
    /\ durationMsec = 0 /\ repeatMsec = 0 /\ lastFrame = 0 /\ minX = 0 /\ minY = 0
    /\ map = EmptyMap /\ keys = <<>> /\ paramValues = EmptyMap /\ colors = EmptyMap
    /\ inputBuffer = <<>> /\ live = {} /\ pipe = <<>> /\ proto = "idle"
    /\ fault = FALSE /\ wrote = <<>> /\ spawns = 0 /\ lastOp = "new"
    /\ sent = 0 /\ blocks = 0 /\ open = FALSE

InitCatalog ==
    /\ NoInstance
    /\ scripts = NoScripts
    /\ listed = <<>>
    /\ entries \in Directories

SpecCatalog == InitCatalog /\ [][NextCatalog]_vars

\* load() over the lines a script may add to its answer
InitLoad ==
    /\ NoInstance
    /\ scripts = NoScripts
    /\ listed = <<>>
    /\ entries \in Described

SpecLoad == InitLoad /\ [][NextCatalog]_vars

\* The keymap block over keymaps and bindings
InitKeys ==
    /\ Init
    /\ info = ParseDescriptor
    /\ path # ""

NextKeys ==
    \/ \E m \in KeyMaps, ks \in Bindings :
          Becomes(init(Before, m, ks, [duration |-> 20, repeat |-> 10]), "init")
    \/ CallFrame({BaseTime})
    \/ CallStop

SpecKeys == InitKeys /\ [][NextKeys]_vars

\* The throttle of frame(): the same operations, with the frame() calls that
\* advance and the blocks of the current child counted.  The child's blocks
\* are counted from its own lines alone.
RECURSIVE Observe(_, _)
Observe(st, lines) ==
    IF lines = <<>>
    THEN st
    ELSE LET line == Head(lines)
         IN  Observe(IF line = BeginFrame THEN [st EXCEPT !.open = TRUE]
                     ELSE IF line = EndFrame /\ st.open
                     THEN [open |-> FALSE, blocks |-> st.blocks + 1]
                     ELSE st,
                     Tail(lines))

Counted(r, op, lines) ==
    LET spawned == r.wrote # <<>> /\ r.wrote[1].c = "begin keymap"
        from == IF spawned THEN [sent |-> 0, blocks |-> 0, open |-> FALSE]
                ELSE [sent |-> sent, blocks |-> blocks, open |-> open]
        advanced == op = "frame" /\ \E i \in 1..Len(r.wrote) : r.wrote[i].c = "frame"
        seen == Observe([open |-> from.open, blocks |-> from.blocks], lines)
    IN  /\ from.sent + (IF advanced THEN 1 ELSE 0) <= MaxFrames
        /\ seen.blocks <= MaxFrames
        /\ Fields(r, op)
        /\ sent' = from.sent + (IF advanced THEN 1 ELSE 0)
        /\ blocks' = seen.blocks
        /\ open' = seen.open
        /\ UNCHANGED catalogVars

\* what the child writes at a time: a line of a block, a whole block, `end run`
ThrottleBursts ==
    {<<BeginFrame>>, <<ArgbA>>, <<EndFrame>>, <<BeginFrame, ArgbA, EndFrame>>, <<EndRun>>}

CountedRead ==
    /\ process # 0
    /\ \E burst \in ThrottleBursts :
          LET r == readProcess([Before EXCEPT !.pipe = @ \o burst])
          IN  /\ Len(r.inputBuffer) <= MaxBuffer
              /\ Counted(r, "readProcess", burst)

NextThrottle ==
    \/ Counted(init(Before, KeyMap, <<"A", "C">>, [duration |-> 20, repeat |-> 10]),
               "init", <<>>)
    \/ \E t \in Timestamps : Counted(frame(Before, t), "frame", <<>>)
    \/ \E t \in Timestamps :
          Counted(retrigger(Before, t, DefaultAllowPreempt), "retrigger", <<>>)
    \/ Counted(stop(Before), "stop", <<>>)
    \/ CountedRead

SpecThrottle == InitParse /\ [][NextThrottle]_vars

\* A child that may exit on its own, under the descriptors without live
\* parameters and one set of parameter values
InitCrash ==
    /\ Init
    /\ ~info.liveParams
    /\ path # ""

NextCrash ==
    \/ CallInit(KeyLists, {[duration |-> 20, repeat |-> 10]})
    \/ CallFrame(Timestamps)
    \/ CallRetrigger(Timestamps)
    \/ CallKeypress(Timestamps)
    \/ CallStop
    \/ ReadyRead(ContractBursts)
    \/ ChildExits

SpecCrash == InitCrash /\ [][NextCrash]_vars

\* The deltas of the frame commands in relative time, with live parameters:
\* durations of 1 ms and 2 ms, of 0, below 0, and none at all
DeltaParamSets ==
    {[duration |-> 10, repeat |-> 10], [duration |-> 20], [duration |-> 0, repeat |-> 10],
     [duration |-> -20], [repeat |-> 10]}

InitDelta ==
    /\ Init
    /\ ~info.absoluteTime
    /\ info.liveParams
    /\ path # ""

NextDelta ==
    \/ CallInit(KeyLists, DeltaParamSets)
    \/ \E pv \in DeltaParamSets : Becomes(parameters(Before, pv), "parameters")
    \/ CallFrame(Timestamps)
    \/ CallRetrigger(Timestamps)
    \/ CallKeypress(Timestamps)
    \/ CallStop
    \/ ReadyRead(ContractBursts)

SpecDelta == InitDelta /\ [][NextDelta]_vars

----------------------------------------------------------------------------
\* Properties

\* the lines of an operation that follow the handshake, if it wrote one
AfterHandshake(w) ==
    IF w # <<>> /\ w[1].c = "begin keymap"
    THEN LET run == CHOOSE i \in 1..Len(w) :
                        w[i].c = "begin run" /\ \A j \in 1..(i - 1) : w[j].c # "begin run"
         IN  SubSeq(w, run + 1, Len(w))
    ELSE w

\* the sum of the deltas of a sequence of frame lines, as a fraction <<n, d>>
RECURSIVE FrameTotal(_)
FrameTotal(w) ==
    IF w = <<>>
    THEN <<0, 1>>
    ELSE LET rest == FrameTotal(Tail(w))
             f == Head(w).num
         IN  <<f[1] * rest[2] + rest[1] * f[2], f[2] * rest[2]>>

\* w is one or more frame lines that advance the animation by e milliseconds
\* of a duration of D milliseconds (by nothing when D is the sentinel -1)
Advances(w, e, D) ==
    /\ w # <<>>
    /\ \A i \in 1..Len(w) : w[i].c = "frame"
    /\ LET total == FrameTotal(w)
       IN  IF D > 0 THEN total[1] * D = e * total[2] ELSE total[1] = 0

\* the upper left corner of the bound keys that have a position
Positioned(ks, m) == {m[ks[i]] : i \in {j \in 1..Len(ks) : ks[j] \in DOMAIN m}}
OriginX(ks, m) ==
    IF Positioned(ks, m) = {}
    THEN INT_MAX
    ELSE CHOOSE x \in {p.x : p \in Positioned(ks, m)} : \A p \in Positioned(ks, m) : x <= p.x
OriginY(ks, m) ==
    IF Positioned(ks, m) = {}
    THEN INT_MAX
    ELSE CHOOSE y \in {p.y : p \in Positioned(ks, m)} : \A p \in Positioned(ks, m) : y <= p.y

\* the milliseconds from one timestamp to a later one, 0 if it is not later
Ahead(from, to) == IF to <= from THEN 0 ELSE to - from

\* C1: the instance holds at most one child at a time: every running child it
\* spawned is the one its handle names, so a spawn never leaves an earlier
\* child running or held.
C1_AtMostOneChild ==
    /\ live \subseteq {process}
    /\ Cardinality(live) <= 1

\* a second child runs, and it is the only one
C1_Witness ==
    /\ spawns >= 2
    /\ process # 0
    /\ live = {process}

\* C2: what a child has been written follows the runtime contract from its
\* first line: keymap block, one params block, `begin run`, and only then
\* frame, start and key commands; every operation that leaves a child behind
\* leaves it past `begin run`.
C2_HandshakeFirst ==
    /\ proto # "bad"
    /\ process # 0 => proto = "run"

\* a keypress spawned the child: the handshake, then frame and key
C2_Witness ==
    /\ lastOp = "keypress"
    /\ Len(wrote) > 2
    /\ wrote[1] = Word("begin keymap")
    /\ wrote[Len(wrote) - 1].c = "frame"
    /\ wrote[Len(wrote)] = Line("key", "A", <<>>, "down")

\* C3: frame() on an instance that is not initialized, or that `end run`
\* stopped, changes no field, spawns nothing and writes nothing.
C3_FrameNoOp ==
    (~initialized \/ stopped) => \A t \in Timestamps : frame(Before, t) = Before

\* frame() was called on an instance its child had stopped with `end run`
C3_Witness ==
    /\ lastOp = "frame"
    /\ initialized
    /\ stopped
    /\ process # 0
    /\ wrote = <<>>

\* C4: in relative-time mode with a positive durationMsec D, nextFrame() at
\* lastFrame + e writes k times `frame 1` and then one `frame r` with
\* 0 <= r <= 1 and k + r = e / D: two `frame 1` and `frame 0.5` for e = 2.5 D;
\* at a timestamp not after lastFrame it writes `frame 0` alone.
C4_NextFrameSplit ==
    (process # 0 /\ ~info.absoluteTime /\ durationMsec > 0) =>
        \A t \in ClockTimestamps :
            LET w == nextFrame(Before, t).wrote
                e == IF t <= lastFrame THEN 0 ELSE t - lastFrame
                k == Len(w) - 1
                r == w[Len(w)].num
            IN  /\ Len(w) >= 1
                /\ \A i \in 1..k : w[i] = FrameOne
                /\ w[Len(w)].c = "frame"
                /\ 0 <= r[1] /\ r[1] <= r[2]
                /\ (k * r[2] + r[1]) * durationMsec = e * r[2]
                /\ 2 * e = 5 * durationMsec => w = <<FrameOne, FrameOne, FrameLine(1, 2)>>
                /\ t <= lastFrame => w = <<FrameLine(0, 1)>>

\* frame() two and a half durations after the last frame
C4_Witness ==
    /\ lastOp = "frame"
    /\ ~info.absoluteTime
    /\ durationMsec > 0
    /\ wrote = <<FrameOne, FrameOne, FrameLine(1, 2)>>

C6_KeypressByMode ==
    initialized =>
        \A key \in PressedKeys, pressed \in BOOLEAN, t \in Timestamps :
            LET r == keypress(Before, key, pressed, t)
                w == AfterHandshake(r.wrote)
                n == Len(w)
                clock == IF process = 0 THEN t ELSE lastFrame
                advanced == /\ n >= 2
                            /\ Advances(SubSeq(w, 1, n - 1), Ahead(clock, t), durationMsec)
                            /\ r.lastFrame = t
            IN  CASE info.kpMode = KP_NONE ->
                       IF pressed
                       THEN r.wrote = retrigger(Before, t, DefaultAllowPreempt).wrote
                       ELSE w = <<>>
                  [] info.kpMode = KP_NAME ->
                       /\ advanced
                       /\ w[n] = Line("key", key, <<>>, DownUp(pressed))
                  [] info.kpMode = KP_POSITION ->
                       IF key \notin DOMAIN map
                       THEN w = <<>>
                       ELSE /\ advanced
                            /\ w[n] = Line("key", "",
                                           <<map[key].x - OriginX(keys, map),
                                             map[key].y - OriginY(keys, map)>>,
                                           DownUp(pressed))

\* a press of A, the key in the corner, in position mode
C6_Witness ==
    /\ lastOp = "keypress"
    /\ info.kpMode = KP_POSITION
    /\ Len(wrote) = 2
    /\ wrote[1].c = "frame"
    /\ wrote[2] = Line("key", "", <<0, 0>>, "down")

\* C7: stop() leaves the colour mapping empty and no child held or running;
\* a second stop(), or stop() on an instance without a child, changes nothing.
C7_StopIdempotent ==
    LET r == stop(Before)
    IN  /\ r.colors = EmptyMap
        /\ r.process = 0
        /\ r.live = {}
        /\ stop(r) = r
        /\ process = 0 => r = Before

\* stop() was called on an instance that had spawned a child
C7_Witness ==
    /\ lastOp = "stop"
    /\ spawns >= 1
    /\ process = 0
    /\ colors = EmptyMap

\* a buffered line of the form `argb <key> <colour>`
WellFormed(l) == Len(l) = 3 /\ l[1] = "argb"

\* the places of the buffer that set the colour of key k
LinesFor(buf, k) == {i \in 1..Len(buf) : WellFormed(buf[i]) /\ buf[i][2] = k}

\* the keys the buffer sets a colour of
Named(buf) == {buf[i][2] : i \in {j \in 1..Len(buf) : WellFormed(buf[j])}}

Last(S) == CHOOSE i \in S : \A j \in S : j <= i

\* C8: a line of the child changes the colour mapping only when it is the
\* `end frame` that closes an open block; then every key a well-formed line
\* `argb <key> <colour>` of the block names has the colour of the last such
\* line, the malformed lines set nothing, every other key keeps its colour,
\* the buffer is empty and the frame is marked as read.
C8_ColorsAtEndFrame ==
    process # 0 /\ pipe = <<>> =>
        \A l \in ChildLines :
            LET r == readProcess([Before EXCEPT !.pipe = <<l>>])
            IN  IF l = EndFrame /\ inputBuffer # <<>>
                THEN /\ r.inputBuffer = <<>>
                     /\ r.readFrame
                     /\ DOMAIN r.colors = DOMAIN colors \cup Named(inputBuffer)
                     /\ \A k \in Named(inputBuffer) :
                            r.colors[k] = toUInt(inputBuffer[Last(LinesFor(inputBuffer, k))][3])
                     /\ \A k \in DOMAIN colors \ Named(inputBuffer) :
                            r.colors[k] = colors[k]
                ELSE r.colors = colors

\* a block closed with 1ff as the last colour of A, over B from a block before
C8_Witness ==
    /\ lastOp = "readProcess"
    /\ inputBuffer = <<>>
    /\ readFrame
    /\ colors = [A |-> <<0, 0, 1, 255>>, B |-> <<0, 0, 0, 10>>]

\* C9 as the specification states it: `end run` marks the instance stopped
\* whether or not a frame block is open.
C9_EndRunAnywhere ==
    process # 0 /\ pipe = <<>> => readProcess([Before EXCEPT !.pipe = <<EndRun>>]).stopped

\* C9, amended: outside a frame block `end run` marks the instance stopped
\* and ends the reading, with the lines behind it left unread; inside an
\* open block it is buffered as a line of the block and marks nothing.
C9_EndRunOutsideBlock ==
    process # 0 /\ pipe = <<>> =>
        \A rest \in {<<>>, <<BeginFrame>>, <<EndFrame>>} :
            LET r == readProcess([Before EXCEPT !.pipe = <<EndRun>> \o rest])
            IN  IF inputBuffer = <<>>
                THEN r = [Before EXCEPT !.stopped = TRUE, !.pipe = rest]
                ELSE /\ r.stopped = stopped
                     /\ r.pipe = <<>>
                     /\ IF rest = <<EndFrame>>
                        THEN r.inputBuffer = <<>> /\ r.colors = processFrame(colors, inputBuffer)
                        ELSE r.inputBuffer = inputBuffer \o <<EndRun>> \o rest
                             /\ r.colors = colors

\* `end run` has arrived inside an open block of a running instance
C9_Witness ==
    /\ lastOp = "readProcess"
    /\ inputBuffer = <<BeginFrame, EndRun>>
    /\ initialized
    /\ ~stopped

\* milliseconds of a parameter given in seconds
Millis(pv, name) == Round(Value(pv, name) * MsecPerSec, ParamScale)

\* the parameter block of pv
ParamsBlock(pv) ==
    <<Word("begin params")>>
    \o [i \in 1..Len(SelectSeq(ParamOrder, LAMBDA n : n \in DOMAIN pv)) |->
           LET n == SelectSeq(ParamOrder, LAMBDA m : m \in DOMAIN pv)[i]
           IN  Line("param", n, <<pv[n]>>, "")]
    \o <<Word("end params")>>

\* parameters() has stored pv and set the durations from it
Updated(r, pv) ==
    /\ r.paramValues = pv
    /\ r.durationMsec = IF info.absoluteTime THEN AbsoluteMsec
                        ELSE IF Millis(pv, "duration") <= 0 THEN -1
                        ELSE Millis(pv, "duration")
    /\ r.repeatMsec = IF info.absoluteTime THEN 0 ELSE Millis(pv, "repeat")

\* C10 as the specification states it: parameters() does nothing when the
\* instance is not initialized or its parameters are not live; in every other
\* case it stores the values and recomputes the durations, and it writes a
\* parameter block exactly when a child is held.
C10_UpdateWithoutChild ==
    \A pv \in ParamSets :
        LET r == parameters(Before, pv)
        IN  IF ~initialized \/ ~info.liveParams
            THEN r = Before
            ELSE /\ Updated(r, pv)
                 /\ r.wrote = IF process # 0 THEN ParamsBlock(pv) ELSE <<>>

\* C10, amended: parameters() does nothing when the instance is not
\* initialized, holds no child, or its parameters are not live; otherwise it
\* stores the values, recomputes the durations and writes one parameter
\* block to the child, and changes nothing else.
C10_UpdateNeedsChild ==
    \A pv \in ParamSets :
        LET r == parameters(Before, pv)
        IN  IF ~initialized \/ process = 0 \/ ~info.liveParams
            THEN r = Before
            ELSE /\ Updated(r, pv)
                 /\ r.wrote = ParamsBlock(pv)
                 /\ r = [Before EXCEPT !.paramValues = r.paramValues,
                                       !.durationMsec = r.durationMsec,
                                       !.repeatMsec = r.repeatMsec,
                                       !.wrote = r.wrote,
                                       !.proto = r.proto]

\* the child was sent a duration of 0.4 ms, which plays once
C10_Witness ==
    /\ lastOp = "parameters"
    /\ process # 0
    /\ paramValues = [duration |-> 4]
    /\ durationMsec = -1
    /\ wrote = ParamsBlock([duration |-> 4])

\* C11: when the child exits on its own the handle is cleared, so the handle
\* the instance holds is that of a running child, and frame(), retrigger()
\* and keypress() on an initialized instance leave it with a running child
\* and write no line to a child that is gone.
C11_ExitClearsHandle ==
    /\ process # 0 => process \in live
    /\ initialized /\ ~stopped =>
           \A t \in Timestamps :
               LET r == frame(Before, t)
               IN  /\ r.process \in r.live
                   /\ process \notin live => r.wrote # <<>> /\ r.wrote[1].c = "begin keymap"

\* the value a script's answer gives a field: that of its last line for it
FieldOf(c, key) ==
    LET at == {i \in 1..Len(c.out) : Len(c.out[i]) >= 2 /\ c.out[i][1] = key}
    IN  IF at = {} THEN <<>> ELSE urlParam(c.out[Last(at)][2])

GuidOf(c) == QUuid(FieldOf(c, "guid"))

\* the script answered in time, with a guid and the five texts
Answered(c) ==
    /\ ~c.running
    /\ ~isNull(GuidOf(c))
    /\ \A key \in {"name", "version", "year", "author", "license"} : FieldOf(c, key) # <<>>

\* C12: after scan() the catalog has exactly the guids of the candidates that
\* answered in time with a guid, name, version, year, author and license, each
\* guid with the first such candidate of the directory, whatever the catalog
\* held before.
C12_ScanCatalog ==
    LET r == scan(entries)
        valid == {i \in 1..Len(entries) : Answered(entries[i])}
    IN  /\ DOMAIN r = {GuidOf(entries[i]) : i \in valid}
        /\ \A g \in DOMAIN r :
               LET first == Min({i \in valid : GuidOf(entries[i]) = g})
               IN  /\ r[g].path = first
                   /\ r[g].info.guid = g
                   /\ r[g].info.name = FieldOf(entries[first], "name")
        /\ lastOp = "scan" => scripts = r

\* two scripts with one guid and a script without a license were scanned
C12_Witness ==
    /\ lastOp = "scan"
    /\ Len(entries) = 3
    /\ entries[1] = Answer("{0a}", "x", <<License>>)
    /\ entries[2] = Answer("{0A}", "y", <<License>>)
    /\ entries[3] = Answer("{0b}", "y", <<<<"license">>>>)
    /\ DOMAIN scripts = {<<0, 10>>}
    /\ scripts[<<0, 10>>].info.name = <<"x">>

\* the scripts of the catalog that have the name of script g
NameGroup(g) == {h \in DOMAIN scripts : scripts[h].info.name = scripts[g].info.name}

\* C13: list() gives every script that shares its name with another the
\* name followed by a space and its own guid in upper case, once, and leaves
\* the name of every other script as it was.
C13_SuffixOnce ==
    \A order \in Orders(scripts) :
        LET r == list(scripts, order)
        IN  \A g \in DOMAIN scripts :
                r.scripts[g].info.name =
                    IF Cardinality(NameGroup(g)) >= 2
                    THEN scripts[g].info.name \o <<" ">> \o toUpper(toString(g))
                    ELSE scripts[g].info.name

\* C14: list() returns every script of the catalog once, in ascending order
\* of the names the scripts have when it returns.
C14_ListSorted ==
    \A order \in Orders(scripts) :
        LET r == list(scripts, order)
            name(i) == r.scripts[r.list[i]].info.name
        IN  /\ Len(r.list) = Cardinality(DOMAIN scripts)
            /\ {r.list[i] : i \in 1..Len(r.list)} = DOMAIN scripts
            /\ \A i, j \in 1..Len(r.list) : i < j => ~LessThan(name(j), name(i))

\* the parameters of a descriptor that have the name spelled tok
Named_(i, tok) == {k \in 1..Len(i.params) : i.params[k].name = Spell(tok)}

\* C15: in every descriptor scan() accepts no two parameters have the same
\* name up to case; trigger, kptrigger, delay, kpdelay, kprelease, stop and
\* kpstop are there once each; duration once in relative time and not in
\* absolute time; repeat and kprepeat once each with repeats on and not with
\* repeats off.
C15_ParamList ==
    LET r == scan(entries)
    IN  \A g \in DOMAIN r :
            LET i == r[g].info
            IN  /\ \A j, k \in 1..Len(i.params) :
                       j # k => toLower(i.params[j].name) # toLower(i.params[k].name)
                /\ \A tok \in {"trigger", "kptrigger", "delay", "kpdelay", "kprelease",
                                 "stop", "kpstop"} : Cardinality(Named_(i, tok)) = 1
                /\ Cardinality(Named_(i, "duration")) = IF i.absoluteTime THEN 0 ELSE 1
                /\ \A tok \in {"repeat", "kprepeat"} :
                       Cardinality(Named_(i, tok)) = IF i.repeat THEN 1 ELSE 0

\* a script in absolute time that declared a duration was accepted
C15_Witness ==
    /\ lastOp = "scan"
    /\ Len(entries) = 1
    /\ Len(entries[1].out) = 8
    /\ SubSeq(entries[1].out, 7, 8) =
           <<<<"time", "absolute">>, <<"param", "Double", "Duration", "", "", "5">>>>
    /\ <<0, 10>> \in DOMAIN scripts
    /\ scripts[<<0, 10>>].info.absoluteTime
    /\ Named_(scripts[<<0, 10>>].info, "duration") = {}
    /\ Len(scripts[<<0, 10>>].info.params) = 9

\* C16: init() on an instance with a path leaves it initialized, without a
\* child held or running, with no colours, with stopped and firstFrame
\* cleared, with the keymap, keys and parameters it was given, and writes
\* nothing, whatever the state before.
C16_InitFromAnyState ==
    path # "" =>
        \A ks \in KeyLists, pv \in ParamSets :
            LET r == init(Before, KeyMap, ks, pv)
            IN  /\ r.initialized
                /\ r.process = 0
                /\ r.live = {}
                /\ r.colors = EmptyMap
                /\ ~r.stopped
                /\ ~r.firstFrame
                /\ r.map = KeyMap /\ r.keys = ks /\ r.paramValues = pv
                /\ r.wrote = <<>>
                /\ ~r.fault

\* init() on an instance that had spawned a child and read a frame of it
C16_Witness ==
    /\ lastOp = "init"
    /\ spawns >= 1
    /\ readAnyFrame
    /\ initialized
    /\ process = 0
    /\ ~stopped

\* the values lastFrame takes in retrigger(t, allowPreempt) on a running child
Preempts(allowPreempt) == allowPreempt /\ info.preempt /\ repeatMsec > 0
MidRetrigger(t, allowPreempt) ==
    IF Preempts(allowPreempt)
    THEN retrigger(Before, t - repeatMsec, DefaultAllowPreempt)
    ELSE Before

\* the deltas of the frame lines of an operation are not negative
NoNegativeDelta(w) == \A i \in 1..Len(w) : w[i].c = "frame" => w[i].num[1] >= 0

\* C18 as the specification states it: on a running child lastFrame never
\* takes a value smaller than the one it has, in frame(), in keypress() and
\* in retrigger() with its step one repeat back.
C18_Monotonic ==
    initialized /\ process # 0 =>
        \A t \in ClockTimestamps :
            /\ frame(Before, t).lastFrame >= lastFrame
            /\ \A key \in PressedKeys, pressed \in BOOLEAN :
                   keypress(Before, key, pressed, t).lastFrame >= lastFrame
            /\ \A allowPreempt \in BOOLEAN :
                   /\ MidRetrigger(t, allowPreempt).lastFrame >= lastFrame
                   /\ retrigger(Before, t, allowPreempt).lastFrame
                          >= MidRetrigger(t, allowPreempt).lastFrame

\* C18, amended: every call that advances the animation of a running child
\* leaves lastFrame at its timestamp, so lastFrame goes back when a timestamp
\* is smaller, and a preempting retrigger() sets it to timestamp - repeatMsec
\* on its way; it does not decrease over a call whose timestamp is not
\* before it, and no frame command carries a negative delta.
C18_ClockFollowsCalls ==
    initialized /\ process # 0 =>
        \A t \in ClockTimestamps :
            /\ LET r == frame(Before, t)
               IN  /\ r.lastFrame = IF r.wrote # <<>> THEN t ELSE lastFrame
                   /\ NoNegativeDelta(r.wrote)
            /\ \A key \in PressedKeys, pressed \in BOOLEAN :
                   LET r == keypress(Before, key, pressed, t)
                   IN  /\ r.lastFrame = IF r.wrote # <<>> THEN t ELSE lastFrame
                       /\ NoNegativeDelta(r.wrote)
            /\ \A allowPreempt \in BOOLEAN :
                   LET r == retrigger(Before, t, allowPreempt)
                   IN  /\ r.lastFrame = t
                       /\ Preempts(allowPreempt) =>
                              MidRetrigger(t, allowPreempt).lastFrame = t - repeatMsec
                       /\ NoNegativeDelta(r.wrote)
                       /\ t >= lastFrame => r.lastFrame >= lastFrame

\* a preempting retrigger() of a running child, at the timestamp of its clock
C18_Witness ==
    /\ lastOp = "retrigger"
    /\ info.preempt /\ repeatMsec > 0
    /\ lastFrame = BaseTime + 1
    /\ Len(wrote) = 4
    /\ wrote[1] = FrameLine(0, 1) /\ wrote[2] = StartLine
    /\ wrote[3].c = "frame" /\ wrote[4] = StartLine

\* C19: start() leaves the line buffer empty, as it leaves the colours
\* empty and firstFrame cleared, so no line of an earlier child is in it when
\* the new child begins to write.
C19_StartClearsBuffer ==
    initialized =>
        \A t \in Timestamps :
            LET r == start(Before, t)
            IN  /\ r.inputBuffer = <<>>
                /\ r.colors = EmptyMap
                /\ ~r.firstFrame

\* the lines of an operation that are `key` lines
KeyLines(w) == SelectSeq(w, LAMBDA l : l.c = "key")

\* C20: the keymap block start() writes announces as many keys as it lists;
\* the keys listed are the bound keys that have a position, in their order;
\* each is given by its position less the corner of these keys, so no
\* coordinate is negative and, if there is a key, some x and some y are 0.
C20_KeymapBlock ==
    initialized =>
        \A t \in Timestamps :
            LET w == start(Before, t).wrote
                kl == KeyLines(w)
                bound == SelectSeq(keys, LAMBDA k : k \in DOMAIN map)
                N == w[2].num[1]
            IN  /\ w[1] = Word("begin keymap")
                /\ w[2].c = "keycount"
                /\ N = Len(kl)
                /\ SubSeq(w, 3, 2 + N) = kl
                /\ w[3 + N] = Word("end keymap")
                /\ Len(kl) = Len(bound)
                /\ \A i \in 1..Len(kl) :
                       /\ kl[i].name = bound[i]
                       /\ kl[i].num = <<map[bound[i]].x - OriginX(keys, map),
                                        map[bound[i]].y - OriginY(keys, map)>>
                       /\ kl[i].num[1] >= 0 /\ kl[i].num[2] >= 0
                /\ N > 0 => /\ \E i \in 1..N : kl[i].num[1] = 0
                            /\ \E i \in 1..N : kl[i].num[2] = 0

\* B, a key without a position and A are bound: two keys are announced
C20_Witness ==
    /\ lastOp = "frame"
    /\ keys = <<"B", "C", "A">>
    /\ map = KeyMap
    /\ Len(wrote) >= 5
    /\ wrote[2] = Line("keycount", "", <<2>>, "")
    /\ wrote[3] = Line("key", "B", <<2, 0>>, "")
    /\ wrote[4] = Line("key", "A", <<0, 1>>, "")
    /\ wrote[5] = Word("end keymap")

\* C17: the frame() calls that have advanced the animation of the current
\* child are at most one more than the frame blocks this child has written
\* from `begin frame` to `end frame`: frame() writes a `frame` command only
\* to a child that has had none or has completed a block since the frame()
\* call before.
C17_Throttle ==
    process # 0 => sent <= 1 + blocks

\* the frame commands among the lines of an operation
FrameLines(w) == SelectSeq(w, LAMBDA l : l.c = "frame")

\* C21: in relative time every `frame` command written to a child, by frame,
\* retrigger or keypress and under any parameter values, carries a delta from
\* 0 to 1; a duration that is zero, negative or missing makes durationMsec
\* the sentinel -1, and durationMsec is never 0 once init() or parameters()
\* has set it, so nextFrame() never divides by zero.
C21_DeltaInUnitRange ==
    /\ initialized => durationMsec # 0
    /\ (initialized /\ ~info.absoluteTime) =>
           durationMsec = IF Millis(paramValues, "duration") <= 0
                          THEN -1
                          ELSE Millis(paramValues, "duration")
    /\ ~info.absoluteTime =>
           \A i \in 1..Len(FrameLines(wrote)) :
               LET delta == FrameLines(wrote)[i].num
               IN  delta[2] > 0 /\ 0 <= delta[1] /\ delta[1] <= delta[2]

\* parameters() has taken the duration away from a running child, and a
\* keypress two milliseconds after the last frame sends `frame 0`
C21_Witness ==
    /\ lastOp = "keypress"
    /\ ~info.absoluteTime
    /\ process # 0
    /\ "duration" \notin DOMAIN paramValues
    /\ durationMsec = -1
    /\ lastFrame = BaseTime + 2
    /\ Len(wrote) = 2
    /\ wrote[1] = FrameLine(0, 1)
    /\ wrote[2].c = "key"

\* C22: no command is written while the instance holds no child: an
\* operation that writes finds a child or starts one first and ends with the
\* child held, and an instance that was never initialized spawns nothing and
\* writes nothing, whatever frame, retrigger, keypress, parameters and stop
\* calls it gets.
C22_WritesNeedChild ==
    /\ ~fault
    /\ wrote # <<>> => process # 0
    /\ ~initialized =>
           /\ process = 0 /\ live = {} /\ spawns = 0 /\ wrote = <<>> /\ proto = "idle"
           /\ \A t \in Timestamps : frame(Before, t) = Before
           /\ \A t \in Timestamps, allowPreempt \in BOOLEAN :
                  retrigger(Before, t, allowPreempt) = Before
           /\ \A key \in PressedKeys, pressed \in BOOLEAN, t \in Timestamps :
                  keypress(Before, key, pressed, t) = Before
           /\ \A pv \in ParamSets : parameters(Before, pv) = Before
           /\ [stop(Before) EXCEPT !.colors = colors] = Before

\* a preempting retrigger of an instance without a child: the handshake, then
\* the frame and `start` of one repeat ago, then those of now
C22_Witness ==
    /\ lastOp = "retrigger"
    /\ process # 0
    /\ info.preempt
    /\ Len(wrote) >= 4
    /\ wrote[1] = Word("begin keymap")
    /\ wrote[Len(wrote) - 3].c = "frame"
    /\ wrote[Len(wrote) - 2] = StartLine
    /\ wrote[Len(wrote) - 1].c = "frame"
    /\ wrote[Len(wrote)] = StartLine

\* the positions the keymap block of the child announced: start() wrote one
\* for each bound key the keymap has, and the keymap and the keys are the
\* same as long as this child is held
Announced ==
    {<<map[k].x - minX, map[k].y - minY>> : k \in {keysCopy(St)[i] : i \in 1..Len(keysCopy(St))}}

\* C23: in the keypress mode by position, every `key x,y down` or `key x,y up`
\* command carries x >= 0 and y >= 0, the position the keymap block of the
\* child announced for some key, whatever key is passed to keypress.
C23_PositionAnnounced ==
    info.kpMode = KP_POSITION =>
        \A i \in 1..Len(wrote) :
            (wrote[i].c = "key" /\ wrote[i].w \in {"down", "up"}) =>
                /\ wrote[i].num[1] >= 0
                /\ wrote[i].num[2] >= 0
                /\ wrote[i].num \in Announced

============================================================================
